---- MODULE Spec2Model ----
(***************************************************************************)
(* Model of ScheduleService (backend/services/study_plan_service.js):      *)
(* day and week schedule generation over a text-generation collaborator    *)
(* (this.ai) and a relational store (this.prisma.schedule).                *)
(*                                                                         *)
(* JavaScript values are encoded as follows.                               *)
(*   - a number-or-missing field is a record [t, v]: t = "num" with the    *)
(*     integer v, t = "undef" for a missing field, t = "nan" for a value   *)
(*     parseInt cannot read;                                               *)
(*   - a template string is a record [tpl, arg] (the template's name and   *)
(*     the interpolated value);                                            *)
(*   - an error message "a: b - c" is the sequence of its parts;           *)
(*   - a clock string ("9:00 AM") is a record [valid, hour, minute, pm],   *)
(*     valid = FALSE standing for the string "Invalid Date";               *)
(*   - an array-or-not value is a record [isArray, items].                 *)
(***************************************************************************)
EXTENDS Integers, Sequences, FiniteSets, TLC

VARIABLES
    ai,            \* this.ai: "ok" (client object) or "null"
    studyPlan,     \* the plan object the caller holds and passes to the service
    pc,            \* where the invocation is suspended ("idle": none, "done": settled)
    op,            \* the invocation in flight or last finished: [kind, num, total]
    sessions,      \* generateDaySessions: the sessions array built so far
    startTime,     \* generateDayContent: what calculateDayStartTime was given and returned
    currentTime,   \* generateDaySessions: the running clock
    topics,        \* the value the last generateTopicsForSubject call returned
    breaks,        \* generateDayContent: what generateDayBreaks returned
    dailyTargets,  \* outcome of the last generateDailyTargets call
    content,       \* outcome of the last generateDayContent call
    weekContent,   \* how the last week-content request ended and what generateWeekContent returned
    data,          \* the argument of the last prisma.schedule.create call
    result,        \* how the last invocation settled: [status, msg]
    schedules,     \* the Schedule table, in insertion order
    calls,         \* collaborator and store calls made by the invocation: [ai, create]
    plans,         \* the StudyPlan table: a function from the ids in use to their rows
    nextPlanId,    \* the autoincrement sequence of StudyPlan.id
    studySessions, \* the StudySession table, in insertion order
    tasks,         \* the StudyPlanService calls in flight or settled, one per caller
    now            \* the clock of the store: @default(now()) and @updatedAt read it

\* the tables and calls of StudyPlanService
planVars == <<plans, nextPlanId, studySessions, tasks>>

vars == <<ai, studyPlan, pc, op, sessions, startTime, currentTime, topics, breaks,
          dailyTargets, content, weekContent, data, result, schedules, calls,
          plans, nextPlanId, studySessions, tasks, now>>

----------------------------------------------------------------------------
(* Bounds of the model *)

\* largest dailyHours of a plan
MaxHours == 8
\* largest dayNumber / totalDays argument
MaxDays == 1
\* largest weekNumber / totalWeeks argument
MaxWeeks == 20
\* rows the Schedule table may hold
MaxSchedules == 1
\* rows the Schedule table may hold when schedules are generated again
MaxStored == 2
\* most non-empty lines in a free-text collaborator reply
MaxLines == 6
\* rows the StudyPlan table is given before the model stops creating plans
MaxPlans == 2
\* callers that use StudyPlanService at the same time
MaxTasks == 2
\* writes that stamp a StudyPlan row before the model stops writing plans
MaxClock == 3

----------------------------------------------------------------------------
(* JavaScript values *)

Num(n) == [t |-> "num", v |-> n]
Undef == [t |-> "undef", v |-> 0]
NotANumber == [t |-> "nan", v |-> 0]

\* parseInt(x): the integer itself, NaN for a missing or non-numeric value
ParseInt(x) == IF x.t = "num" THEN x ELSE NotANumber

\* JavaScript truthiness of a number-or-missing value
Truthy(x) == x.t = "num" /\ x.v # 0

Array(items) == [isArray |-> TRUE, items |-> items]
NotArray == [isArray |-> FALSE, items |-> <<>>]

Str(tpl, arg) == [tpl |-> tpl, arg |-> arg]

\* subjects[0] as interpolated into a template string
FirstSubject(subjects) ==
    IF Len(subjects) > 0 THEN subjects[1] ELSE "undefined"

RECURSIVE SumSeq(_)
SumSeq(s) == IF s = <<>> THEN 0 ELSE Head(s) + SumSeq(Tail(s))

Min(a, b) == IF a < b THEN a ELSE b

----------------------------------------------------------------------------
(* Clock strings *)

MinutesPerDay == 24 * 60
InvalidDate == [valid |-> FALSE, mins |-> 0]
Clock(m) == [valid |-> TRUE, mins |-> m]

InvalidDateString == [valid |-> FALSE, hour |-> 0, minute |-> 0, pm |-> FALSE]

\* Date.prototype.toLocaleTimeString('en-US', {hour: 'numeric', minute: '2-digit', hour12: true})
\* of a date `mins` minutes after 2000-01-01 00:00
ToLocaleTimeString(d) ==
    IF ~d.valid THEN InvalidDateString
    ELSE LET m == d.mins % MinutesPerDay
             h24 == m \div 60
         IN [valid |-> TRUE,
             hour |-> IF h24 % 12 = 0 THEN 12 ELSE h24 % 12,
             minute |-> m % 60,
             pm |-> h24 >= 12]

\* new Date(`2000-01-01 ${time}`)
ParseClock(time) ==
    IF ~time.valid THEN InvalidDate
    ELSE Clock(((time.hour % 12) + (IF time.pm THEN 12 ELSE 0)) * 60 + time.minute)

AddMinutes(d, n) == IF d.valid THEN Clock(d.mins + n) ELSE InvalidDate

----------------------------------------------------------------------------
(* Plans *)

\* preferences.startTime: absent, a string "HH:MM", a string without digits
\* ("abc"), or a value that is no string
NoStartTime == [kind |-> "absent", h |-> 0, m |-> 0]
HHMM(h, m) == [kind |-> "hhmm", h |-> h, m |-> m]
GarbageTime == [kind |-> "garbage", h |-> 0, m |-> 0]
NonStringTime == [kind |-> "nonstring", h |-> 0, m |-> 0]

DefaultStartTime == HHMM(9, 0)

DefaultDailyHours == 6

NullPlan ==
    [isNull |-> TRUE, id |-> Undef, userId |-> "undefined", subjects |-> NotArray,
     dailyHours |-> Undef, startTime |-> NoStartTime]

Plan(id, userId, subjects, dailyHours, preferredTime) ==
    [isNull |-> FALSE, id |-> id, userId |-> userId, subjects |-> subjects,
     dailyHours |-> dailyHours, startTime |-> preferredTime]

\* normalizeStudyPlan(studyPlan), for a plan that is not null
normalizeStudyPlan(p) ==
    [p EXCEPT !.id = ParseInt(p.id),
              !.subjects = IF p.subjects.isArray THEN p.subjects ELSE Array(<<>>),
              !.dailyHours = IF Truthy(ParseInt(p.dailyHours))
                             THEN ParseInt(p.dailyHours)
                             ELSE Num(DefaultDailyHours)]

\* calculateDayStartTime(preferredTime)
calculateDayStartTime(preferredTime) ==
    LET t == IF preferredTime.kind = "absent" THEN DefaultStartTime ELSE preferredTime
    IN CASE t.kind = "hhmm" -> ToLocaleTimeString(Clock(t.h * 60 + t.m))
         [] t.kind = "garbage" -> InvalidDateString
         [] OTHER -> ToLocaleTimeString(Clock(9 * 60))

\* normalizedPlan.preferences?.startTime || "09:00"
PreferredStartTime(p) ==
    IF p.startTime.kind = "absent" THEN DefaultStartTime ELSE p.startTime

\* Math.floor(normalizedPlan.dailyHours / 2)
SessionsPerDay(np) == np.dailyHours.v \div 2

----------------------------------------------------------------------------
(* Topics and sessions *)

Topic(name, type, difficulty, duration) ==
    [name |-> name, type |-> type, difficulty |-> difficulty, duration |-> duration]

\* the catch clause of generateTopicsForSubject
FallbackTopics(subject) == <<Topic(Str("Basics", subject), "NEW", 1, 0)>>

TopicReply(kind, items) == [kind |-> kind, items |-> items]

\* generateTopicsForSubject(subject, ...) when the collaborator call ends as
\* `reply` ("typeerror": this.ai is null and no call is made)
generateTopicsForSubject(subject, reply) ==
    CASE reply.kind = "array" -> Array(reply.items)
      [] reply.kind = "nonarray" -> NotArray
      [] OTHER -> Array(FallbackTopics(subject))

\* (totalHoursPerDay / sessionsCount) * 60, in whole minutes
AverageSessionLength(np, sessionsCount) == (np.dailyHours.v * 60) \div sessionsCount

\* topics.reduce((total, topic) => total + (parseInt(topic.duration) || average), 0)
SessionDuration(items, average) ==
    SumSeq([k \in 1..Len(items) |->
              IF items[k].duration # 0 THEN items[k].duration ELSE average])

\* calculateStudyPace(topics); an empty list divides 0 by 0 and compares false
calculateStudyPace(items) ==
    LET total == SumSeq([k \in 1..Len(items) |->
                           IF items[k].difficulty # 0 THEN items[k].difficulty ELSE 3])
    IN CASE Len(items) > 0 /\ total >= 4 * Len(items) -> "Take extra time for complex concepts"
         [] Len(items) > 0 /\ total >= 3 * Len(items) -> "Maintain steady pace"
         [] OTHER -> "Can proceed quickly if concepts are clear"

\* a variant that does not wrap around: subjects[Math.min(i, subjects.length - 1)]
SubjectAtNoWrap(subjects, i) == subjects[Min(i, Len(subjects) - 1) + 1]

\* subjects[i % subjects.length], i counted from 0
SubjectAt(subjects, i) == subjects[(i % Len(subjects)) + 1]

\* the object pushed by one iteration of the loop of generateDaySessions
Session(time, subject, items, average) ==
    [time |-> ToLocaleTimeString(time),
     subject |-> subject,
     topics |-> items,
     type |-> "STUDY",
     duration |-> SessionDuration(items, average),
     recommendedPace |-> calculateStudyPace(items)]

----------------------------------------------------------------------------
(* Breaks *)

\* a variant that puts lunch after the first session: index === 0
IsLunchIndexFirst(index, n) == index = 0

\* index === Math.floor(sessions.length / 2) - 1, index counted from 0
IsLunchIndex(index, n) == index = (n \div 2) - 1

BreakAfter(session, index, n) ==
    [time |-> ToLocaleTimeString(AddMinutes(ParseClock(session.time), 2 * 60)),
     duration |-> IF IsLunchIndex(index, n) THEN "45min" ELSE "15min",
     type |-> IF IsLunchIndex(index, n) THEN "LUNCH" ELSE "SHORT"]

\* generateDayBreaks(sessions)
generateDayBreaks(sess) ==
    [k \in 1..(IF Len(sess) > 0 THEN Len(sess) - 1 ELSE 0) |->
        BreakAfter(sess[k], k - 1, Len(sess))]

----------------------------------------------------------------------------
(* Daily targets *)

MaxTargetLines == 5

TargetReply(kind, n) == [kind |-> kind, n |-> n]

AiLines(n) == [k \in 1..n |-> Str("ai", ToString(k))]

\* `Study ${studyPlan.subjects[0]} concepts`
StudyConcepts(arg) == <<Str("Study concepts", arg)>>

\* what generateDailyTargets(studyPlan, dayNumber) returns when the collaborator
\* call ends as `reply`, for a plan whose subjects are an array
generateDailyTargets(subjects, reply) ==
    CASE reply.kind = "json_array" -> AiLines(reply.n)
      [] reply.kind = "json_nonarray" -> StudyConcepts(FirstSubject(subjects))
      [] reply.kind = "text" ->
            IF reply.n > 0 THEN AiLines(Min(reply.n, MaxTargetLines))
            ELSE StudyConcepts(FirstSubject(subjects))
      [] OTHER -> StudyConcepts(IF Len(subjects) > 0 THEN subjects[1] ELSE "core")

\* a variant without the guard: the null collaborator is met inside the try block
TargetsGuardMissing(aiField) == FALSE

\* if (!this.ai) throw new Error('AI service not initialized')
TargetsGuardThrows(aiField) == aiField = "null"

----------------------------------------------------------------------------
(* Outcomes *)

None == [status |-> "none", value |-> <<>>, msg |-> <<>>]
Ok(v) == [status |-> "ok", value |-> v, msg |-> <<>>]
Err(m) == [status |-> "error", value |-> <<>>, msg |-> m]

Focus(tpl, n, arg) == [tpl |-> tpl, n |-> n, arg |-> arg]

NoContent ==
    [status |-> "none", focus |-> Focus("", 0, ""), sessions |-> <<>>,
     breaks |-> <<>>, dailyTargets |-> <<>>, msg |-> <<>>]

\* the object generateDayContent returns
DayContent(np, dayNumber, sess, brk, targets) ==
    [status |-> "ok", focus |-> Focus("Day Study", dayNumber, FirstSubject(np.subjects.items)),
     sessions |-> sess, breaks |-> brk, dailyTargets |-> targets, msg |-> <<>>]

\* throw new Error(`error: Failed to generate content - ${error.message}`)
ContentError(m) ==
    [NoContent EXCEPT !.status = "error",
                      !.msg = <<"error: Failed to generate content">> \o m]

\* throw new Error(`Failed to generate sessions: ${error.message}`)
SessionsError(m) == <<"Failed to generate sessions">> \o m

\* how an invocation settles
NoResult == [status |-> "none", msg |-> <<>>]
Resolved == [status |-> "ok", msg |-> <<>>]
Rejected(m) == [status |-> "error", msg |-> m]

\* a variant that rethrows the error as it caught it: throw error
ScheduleErrorRethrown(m) == Rejected(m)

\* throw new Error(`Failed to generate schedule: ${error.message}`)
ScheduleError(m) == Rejected(<<"Failed to generate schedule">> \o m)

\* throw new Error(`Failed to generate weekly schedule: ${error.message}`)
WeekScheduleError(m) == Rejected(<<"Failed to generate weekly schedule">> \o m)

----------------------------------------------------------------------------
(* Metadata *)

\* (a / b) * 100, kept as the fraction num / den
Percent(a, b) == [num |-> a * 100, den |-> b]

\* a variant without the guard
DayMetadataNeverThrows(dayNumber, totalDays) == FALSE

\* the guard of generateDayMetadata (studyPlan is not null here)
DayMetadataThrows(dayNumber, totalDays) == dayNumber = 0 \/ totalDays = 0

\* generateDayMetadata(dayNumber, totalDays, studyPlan)
generateDayMetadata(dayNumber, totalDays, p) ==
    [currentDay |-> dayNumber,
     totalDays |-> totalDays,
     progress |-> Percent(dayNumber, totalDays),
     dailyHours |-> p.dailyHours,
     status |-> "PENDING"]

\* a variant that tests "even" before "multiple of 4"
determineWeekTypeEvenFirst(weekNumber, totalWeeks) ==
    IF weekNumber = 1 THEN "FOUNDATION"
    ELSE IF weekNumber = totalWeeks THEN "FINAL_REVISION"
    ELSE IF weekNumber % 2 = 0 THEN "PRACTICE"
    ELSE IF weekNumber % 4 = 0 THEN "REVISION"
    ELSE "CORE_CONCEPTS"

\* determineWeekType(weekNumber, totalWeeks)
determineWeekType(weekNumber, totalWeeks) ==
    IF weekNumber = 1 THEN "FOUNDATION"
    ELSE IF weekNumber = totalWeeks THEN "FINAL_REVISION"
    ELSE IF weekNumber % 4 = 0 THEN "REVISION"
    ELSE IF weekNumber % 2 = 0 THEN "PRACTICE"
    ELSE "CORE_CONCEPTS"

\* calculateWeekStartDate(weekNumber), in days after the date of its `new Date()`
calculateWeekStartDate(weekNumber) == (weekNumber - 1) * 7

\* calculateWeekEndDate(weekNumber), in days after the date of its `new Date()`
calculateWeekEndDate(weekNumber) == (weekNumber - 1) * 7 + 6

\* a variant that counts the weeks already finished: ((weekNumber - 1) / totalWeeks) * 100
generateWeekMetadataFinished(weekNumber, totalWeeks, p, later) ==
    [currentWeek |-> weekNumber,
     totalWeeks |-> totalWeeks,
     weekProgress |-> Percent(weekNumber - 1, totalWeeks),
     weeklyHours |-> IF p.dailyHours.t = "num" THEN Num(p.dailyHours.v * 7) ELSE NotANumber,
     startDate |-> calculateWeekStartDate(weekNumber),
     endDate |-> later + calculateWeekEndDate(weekNumber),
     status |-> "PENDING",
     revision |-> weekNumber % 4 = 0,
     weekType |-> determineWeekType(weekNumber, totalWeeks)]

\* generateWeekMetadata(weekNumber, totalWeeks, studyPlan); dates are counted in
\* days after the date at which calculateWeekStartDate reads the clock, and
\* `later` is the number of days by which the clock has advanced when
\* calculateWeekEndDate reads it
generateWeekMetadata(weekNumber, totalWeeks, p, later) ==
    [currentWeek |-> weekNumber,
     totalWeeks |-> totalWeeks,
     weekProgress |-> Percent(weekNumber, totalWeeks),
     weeklyHours |-> IF p.dailyHours.t = "num" THEN Num(p.dailyHours.v * 7) ELSE NotANumber,
     startDate |-> calculateWeekStartDate(weekNumber),
     endDate |-> later + calculateWeekEndDate(weekNumber),
     status |-> "PENDING",
     revision |-> weekNumber % 4 = 0,
     weekType |-> determineWeekType(weekNumber, totalWeeks)]

----------------------------------------------------------------------------
(* Week content *)

WeekReply(kind) == [kind |-> kind]

\* a variant whose daily template has no afternoon break
generateWeeklyBreaksNoAfternoon ==
    [dailyBreaks |-> << [time |-> "11:00 AM", duration |-> "15min", type |-> "SHORT"],
                        [time |-> "1:00 PM", duration |-> "45min", type |-> "LUNCH"] >>,
     weekendBreaks |-> << [time |-> "11:30 AM", duration |-> "30min", type |-> "LONG"],
                          [time |-> "2:00 PM", duration |-> "60min", type |-> "RECREATION"] >>]

\* generateWeeklyBreaks()
generateWeeklyBreaks ==
    [dailyBreaks |-> << [time |-> "11:00 AM", duration |-> "15min", type |-> "SHORT"],
                        [time |-> "1:00 PM", duration |-> "45min", type |-> "LUNCH"],
                        [time |-> "4:00 PM", duration |-> "15min", type |-> "SHORT"] >>,
     weekendBreaks |-> << [time |-> "11:30 AM", duration |-> "30min", type |-> "LONG"],
                          [time |-> "2:00 PM", duration |-> "60min", type |-> "RECREATION"] >>]

NoWeekContent ==
    [isNull |-> FALSE, defined |-> {}, focus |-> Focus("", 0, ""), weeklyTargets |-> <<>>]

\* the catch clause of generateWeekContent
FallbackWeekContent(p, weekNumber) ==
    [isNull |-> FALSE, defined |-> {"focus", "weeklyTargets"},
     focus |-> Focus("Week Core Studies", weekNumber, ""),
     weeklyTargets |-> <<Str("Master", FirstSubject(p.subjects.items))>>]

\* generateWeekContent(studyPlan, weekNumber, totalWeeks) when the collaborator
\* call ends as `reply`: JSON.parse(response.text) is returned as it is
generateWeekContent(p, weekNumber, reply) ==
    CASE reply.kind = "object" ->
            [isNull |-> FALSE, defined |-> {"focus", "weeklyTargets"},
             focus |-> Focus("ai", 0, "focus"), weeklyTargets |-> AiLines(2)]
      [] reply.kind = "empty_object" -> NoWeekContent
      [] reply.kind = "json_null" -> [NoWeekContent EXCEPT !.isNull = TRUE]
      [] OTHER -> FallbackWeekContent(p, weekNumber)

----------------------------------------------------------------------------
(* The Schedule table (model Schedule of the Prisma schema) *)

ScheduleColumns ==
    {"id", "type", "studyPlanId", "userId", "dayNumber", "focus", "sessions",
     "breaks", "dailyTargets", "metadata", "studyPlan", "user", "createdAt", "updatedAt"}

\* columns without a default that create must be given
RequiredColumns ==
    {"studyPlanId", "userId", "dayNumber", "focus", "sessions", "breaks",
     "dailyTargets", "metadata"}

\* a field whose value is undefined is not passed to the store
OwnerFields(p) ==
    (IF p.id.t = "undef" THEN {} ELSE {"studyPlanId"})
        \cup (IF p.userId = "undefined" THEN {} ELSE {"userId"})

NoData == [fields |-> {}, type |-> ""]

\* the `data` of the create call of generateDaySchedule
DayData(p, dayNumber, c, metadata) ==
    [fields |-> {"type", "dayNumber", "focus", "sessions", "breaks", "dailyTargets",
                 "metadata"} \cup OwnerFields(p),
     type |-> "DAILY",
     studyPlanId |-> p.id,
     userId |-> p.userId,
     dayNumber |-> dayNumber,
     focus |-> c.focus,
     sessions |-> [set |-> c.sessions],
     breaks |-> c.breaks,
     dailyTargets |-> c.dailyTargets,
     metadata |-> metadata]

\* the `data` of the create call of generateWeekSchedule
WeekData(p, weekNumber, wc, metadata) ==
    [fields |-> {"type", "weekNumber", "sessions", "breaks", "metadata"}
                 \cup OwnerFields(p)
                 \cup (wc.defined \cap {"focus", "weeklyTargets", "weeklyTests"}),
     type |-> "WEEKLY",
     studyPlanId |-> p.id,
     userId |-> p.userId,
     weekNumber |-> weekNumber,
     focus |-> wc.focus,
     sessions |-> wc.defined \cap {"monday", "tuesday", "wednesday", "thursday",
                                   "friday", "saturday", "sunday"},
     weeklyTargets |-> wc.weeklyTargets,
     weeklyTests |-> <<>>,
     breaks |-> generateWeeklyBreaks,
     metadata |-> metadata]

\* the store validates the fields of `data` against the columns of Schedule
SchemaAccepts(d) ==
    d.fields \subseteq ScheduleColumns /\ RequiredColumns \subseteq d.fields

----------------------------------------------------------------------------
(* Inputs *)

\* the plans a caller may hold: well-formed ones, and one field spoilt at a time
Plans ==
    {Plan(Num(1), "user-1", Array(<<"Math", "Science">>), Num(h), NoStartTime) :
        h \in 1..MaxHours}
    \cup {Plan(Num(1), "user-1", s, Num(4), NoStartTime) :
            s \in {NotArray, Array(<<>>), Array(<<"Math">>)}}
    \cup {Plan(Num(1), "user-1", Array(<<"Math", "Science">>), h, NoStartTime) :
            h \in {Undef, NotANumber, Num(0), Num(-3)}}
    \cup {Plan(Undef, "user-1", Array(<<"Math">>), Num(4), NoStartTime),
          Plan(Num(1), "undefined", Array(<<"Math">>), Num(4), NoStartTime)}
    \cup {Plan(Num(1), "user-1", Array(<<"Math">>), Num(4), t) :
            t \in {HHMM(22, 30), HHMM(25, 99), GarbageTime, NonStringTime}}
    \cup {NullPlan}

\* no day index, the last day, and one past the last day
DayNumbers == {0, MaxDays, MaxDays + 1}
TotalDays == 0..MaxDays
WeekNumbers == -1..MaxWeeks
TotalWeeks == 0..MaxWeeks

\* what the collaborator may answer to a topic request
AiTopics == <<Topic(Str("ai", "T1"), "REVISION", 4, 30), Topic(Str("ai", "T2"), "PRACTICE", 0, 0)>>

TopicReplies ==
    {TopicReply(k, <<>>) : k \in {"reject", "notext", "nonjson", "nonarray"}}
    \cup {TopicReply("array", AiTopics)}

\* what the collaborator may answer to a daily-target request: a rejected call,
\* a reply without `response`, an empty text, JSON that is no array, a JSON
\* array of n strings, or text of n non-empty lines that is no JSON
TargetReplies ==
    {TargetReply(k, 0) : k \in {"reject", "noresponse", "emptytext", "json_nonarray"}}
    \cup {TargetReply(k, n) : k \in {"json_array", "text"}, n \in {0, 1, MaxLines}}

\* the same kinds of reply, as drawn within a day composition
DayTargetReplies == {r \in TargetReplies : r.n = 1 \/ r.kind # "json_array"} \ {TargetReply("text", MaxLines)}

\* what the collaborator may answer to a week-content request
WeekReplies ==
    {WeekReply(k) : k \in {"reject", "notext", "nonjson", "object", "empty_object",
                           "json_null"}}

----------------------------------------------------------------------------
(* State *)

NoCalls == [ai |-> 0, create |-> 0]
NoPlans == [id \in {} |-> <<>>]
NoArg == [none |-> TRUE]
NoTask == [kind |-> "none", pc |-> "idle", id |-> 0, arg |-> NoArg, result |-> NoResult]
TaskIds == 1..MaxTasks
PlanIds == 1..MaxPlans
NoStart == [called |-> FALSE, arg |-> NoStartTime, value |-> InvalidDateString]
NoWeekReturn == [called |-> FALSE, reply |-> "", value |-> NoWeekContent]
NoTopics == [called |-> FALSE, subject |-> "", reply |-> "", value |-> NotArray]
NoOp == [kind |-> "none", num |-> 0, total |-> 0]

\* the service as constructed, or with the collaborator taken away as the tests
\* do right after constructing it (service.ai = null)
Constructed ==
    /\ ai \in {"ok", "null"}
    /\ studyPlan \in Plans
    /\ pc = "idle"
    /\ op = NoOp
    /\ sessions = <<>>
    /\ startTime = NoStart
    /\ currentTime = InvalidDate
    /\ topics = NoTopics
    /\ breaks = <<>>
    /\ dailyTargets = None
    /\ content = NoContent
    /\ weekContent = NoWeekReturn
    /\ data = NoData
    /\ result = NoResult
    /\ schedules = <<>>
    /\ calls = NoCalls
    /\ tasks = [t \in TaskIds |-> NoTask]
    /\ now = 0

\* the services over an empty store
Init ==
    /\ Constructed
    /\ plans = NoPlans
    /\ nextPlanId = 1
    /\ studySessions = <<>>

----------------------------------------------------------------------------
(* generateDaySchedule / generateDayContent / generateDaySessions *)

\* one more collaborator call, unless this.ai is null (the call throws a TypeError)
AiCall(n) == IF ai = "ok" THEN n + 1 ELSE n

\* how a collaborator call can end: with this.ai null, reading this.ai.models
\* throws a TypeError inside the caller's try block
Endings(replies, typeError) == IF ai = "ok" THEN replies ELSE {typeError}

\* the local state of a day composition
DayLocals(p, s, t, b, d, c, r, n) ==
    [pc |-> p, sessions |-> s, currentTime |-> t, breaks |-> b, dailyTargets |-> d,
     content |-> c, result |-> r, aiCalls |-> n]

\* an error thrown inside generateDayContent: its catch rethrows, and so does
\* the catch of generateDaySchedule
DayAbort(s, t, b, d, m, n) ==
    DayLocals("done", s, t, b, d, ContentError(m),
              ScheduleError(ContentError(m).msg), n)

\* generateDayContent once generateDaySessions has returned `sess`:
\* Promise.all([generateDayBreaks(sessions), generateDailyTargets(plan, day)])
AfterSessions(sess, t, n) ==
    IF TargetsGuardThrows(ai)
    THEN DayAbort(sess, t, generateDayBreaks(sess), Err(<<"AI service not initialized">>),
                  <<"AI service not initialized">>, n)
    ELSE DayLocals("targets", sess, t, generateDayBreaks(sess), None, NoContent,
                   NoResult, n + 1)

\* const startTime = this.calculateDayStartTime(preferences?.startTime || "09:00"),
\* reached when neither guard of generateDaySchedule / generateDayContent throws
DayStartTime(p, dayNumber) ==
    IF p.isNull \/ dayNumber = 0 THEN NoStart
    ELSE LET preferred == PreferredStartTime(normalizeStudyPlan(p))
         IN [called |-> TRUE, arg |-> preferred,
             value |-> calculateDayStartTime(preferred)]

\* generateDaySchedule(studyPlan, dayNumber, totalDays) up to its first suspension
DayStart(p, dayNumber) ==
    LET np == normalizeStudyPlan(p)
        start == ParseClock(calculateDayStartTime(PreferredStartTime(np)))
    IN IF p.isNull
       THEN DayLocals("done", <<>>, InvalidDate, <<>>, None, NoContent,
                      ScheduleError(<<"Study plan is required">>), 0)
       ELSE IF dayNumber = 0
       THEN DayAbort(<<>>, InvalidDate, <<>>, None, <<"Missing required parameters">>, 0)
       ELSE IF Len(np.subjects.items) = 0
       THEN DayAbort(<<>>, InvalidDate, <<>>, None,
                     SessionsError(<<"Invalid subjects array">>), 0)
       ELSE IF SessionsPerDay(np) <= 0
       THEN AfterSessions(<<>>, start, 0)
       ELSE DayLocals("topics", <<>>, start, <<>>, None, NoContent, NoResult, AiCall(0))

\* a variant of the loop that stops one session early
SessionStepOneShort(np, subject, t) ==
    LET n == SessionsPerDay(np)
        average == AverageSessionLength(np, n)
        session == Session(currentTime, subject, t.items, average)
        sess == Append(sessions, session)
        time == AddMinutes(currentTime, session.duration)
    IN IF ~t.isArray
       THEN DayAbort(sessions, currentTime, <<>>, None,
                     SessionsError(<<"topics.reduce is not a function">>), calls.ai)
       ELSE IF Len(sess) < n - 1
       THEN DayLocals("topics", sess, time, <<>>, None, NoContent, NoResult, AiCall(calls.ai))
       ELSE AfterSessions(sess, time, calls.ai)

\* a variant of the loop that asks for the topics of one session more
SessionStepOneMore(np, subject, t) ==
    LET n == SessionsPerDay(np)
        average == AverageSessionLength(np, n)
        session == Session(currentTime, subject, t.items, average)
        sess == Append(sessions, session)
        time == AddMinutes(currentTime, session.duration)
    IN IF ~t.isArray
       THEN DayAbort(sessions, currentTime, <<>>, None,
                     SessionsError(<<"topics.reduce is not a function">>), calls.ai)
       ELSE IF Len(sess) <= n
       THEN DayLocals("topics", sess, time, <<>>, None, NoContent, NoResult, AiCall(calls.ai))
       ELSE AfterSessions(sess, time, calls.ai)

\* one iteration of the loop of generateDaySessions, resumed when
\* generateTopicsForSubject returns `t` for `subject`
SessionStep(np, subject, t) ==
    LET n == SessionsPerDay(np)
        average == AverageSessionLength(np, n)
        session == Session(currentTime, subject, t.items, average)
        sess == Append(sessions, session)
        time == AddMinutes(currentTime, session.duration)
    IN IF ~t.isArray
       THEN DayAbort(sessions, currentTime, <<>>, None,
                     SessionsError(<<"topics.reduce is not a function">>), calls.ai)
       ELSE IF Len(sess) < n
       THEN DayLocals("topics", sess, time, <<>>, None, NoContent, NoResult, AiCall(calls.ai))
       ELSE AfterSessions(sess, time, calls.ai)

SetDayLocals(o) ==
    /\ pc' = o.pc
    /\ sessions' = o.sessions
    /\ currentTime' = o.currentTime
    /\ breaks' = o.breaks
    /\ dailyTargets' = o.dailyTargets
    /\ content' = o.content
    /\ result' = o.result
    /\ calls' = [ai |-> o.aiCalls, create |-> 0]

StartDay(dayNumber, totalDays) ==
    /\ pc = "idle"
    /\ op' = [kind |-> "day", num |-> dayNumber, total |-> totalDays]
    /\ SetDayLocals(DayStart(studyPlan, dayNumber))
    /\ startTime' = DayStartTime(studyPlan, dayNumber)
    /\ topics' = NoTopics
    /\ weekContent' = NoWeekReturn
    /\ data' = NoData
    /\ UNCHANGED <<ai, studyPlan, schedules>>
    /\ UNCHANGED planVars
    /\ now' = now

\* generateTopicsForSubject settles
TopicsReturn(reply) ==
    /\ pc = "topics"
    /\ LET np == normalizeStudyPlan(studyPlan)
           subject == SubjectAt(np.subjects.items, Len(sessions))
           t == generateTopicsForSubject(subject, reply)
       IN /\ topics' = [called |-> TRUE, subject |-> subject, reply |-> reply.kind, value |-> t]
          /\ SetDayLocals(SessionStep(np, subject, t))
    /\ UNCHANGED <<ai, studyPlan, op, startTime, weekContent, data, schedules>>
    /\ UNCHANGED planVars
    /\ now' = now

\* generateDailyTargets settles: inside generateDayContent, which then returns
\* to generateDaySchedule (metadata, structure check, create), or called directly
TargetsReturn(reply) ==
    /\ pc = "targets"
    /\ LET np == normalizeStudyPlan(studyPlan)
           value == generateDailyTargets(np.subjects.items, reply)
           c == DayContent(np, op.num, sessions, breaks, value)
       IN /\ dailyTargets' = Ok(value)
          /\ IF op.kind = "targets"
             THEN /\ pc' = "done"
                  /\ result' = Resolved
                  /\ UNCHANGED <<content, data, calls>>
             ELSE /\ content' = c
                  /\ IF DayMetadataThrows(op.num, op.total)
                     THEN /\ pc' = "done"
                          /\ result' = ScheduleError(
                                <<"Missing required parameters for metadata generation">>)
                          /\ UNCHANGED <<data, calls>>
                     ELSE /\ pc' = "create"
                          /\ data' = DayData(studyPlan, op.num, c,
                                             generateDayMetadata(op.num, op.total, studyPlan))
                          /\ calls' = [calls EXCEPT !.create = @ + 1]
                          /\ UNCHANGED result
    /\ UNCHANGED <<ai, studyPlan, op, sessions, startTime, currentTime, topics, breaks,
                   weekContent, schedules>>
    /\ UNCHANGED planVars
    /\ now' = now

\* generateDailyTargets(studyPlan, dayNumber) called on the service directly
StartTargets(dayNumber) ==
    /\ pc = "idle"
    /\ op' = [kind |-> "targets", num |-> dayNumber, total |-> 0]
    /\ IF TargetsGuardThrows(ai)
       THEN /\ pc' = "done"
            /\ dailyTargets' = Err(<<"AI service not initialized">>)
            /\ result' = Rejected(<<"AI service not initialized">>)
            /\ calls' = NoCalls
       ELSE IF studyPlan.isNull \/ ~studyPlan.subjects.isArray
       THEN \* building the prompt throws, and so does the catch clause
            /\ pc' = "done"
            /\ dailyTargets' = Err(<<"TypeError">>)
            /\ result' = Rejected(<<"TypeError">>)
            /\ calls' = NoCalls
       ELSE /\ pc' = "targets"
            /\ dailyTargets' = None
            /\ result' = NoResult
            /\ calls' = [ai |-> 1, create |-> 0]
    /\ sessions' = <<>>
    /\ startTime' = NoStart
    /\ currentTime' = InvalidDate
    /\ topics' = NoTopics
    /\ breaks' = <<>>
    /\ content' = NoContent
    /\ weekContent' = NoWeekReturn
    /\ data' = NoData
    /\ UNCHANGED <<ai, studyPlan, schedules>>
    /\ UNCHANGED planVars
    /\ now' = now

----------------------------------------------------------------------------
(* generateWeekSchedule *)

\* validateStudyPlan(studyPlan): the message it throws, <<>> if it returns
validateStudyPlan(p) ==
    IF p.isNull \/ ~Truthy(p.id) \/ p.userId = "undefined"
    THEN <<"Invalid study plan: missing required fields">>
    ELSE IF ~p.subjects.isArray \/ Len(p.subjects.items) = 0
    THEN <<"Invalid study plan: subjects are required">>
    ELSE <<>>

\* !weekNumber || !totalWeeks || weekNumber > totalWeeks
InvalidWeekParams(weekNumber, totalWeeks) ==
    weekNumber = 0 \/ totalWeeks = 0 \/ weekNumber > totalWeeks

StartWeek(weekNumber, totalWeeks) ==
    /\ pc = "idle"
    /\ op' = [kind |-> "week", num |-> weekNumber, total |-> totalWeeks]
    /\ IF validateStudyPlan(studyPlan) # <<>>
       THEN /\ pc' = "done"
            /\ result' = WeekScheduleError(validateStudyPlan(studyPlan))
            /\ calls' = NoCalls
       ELSE IF InvalidWeekParams(weekNumber, totalWeeks)
       THEN /\ pc' = "done"
            /\ result' = WeekScheduleError(<<"Invalid week parameters">>)
            /\ calls' = NoCalls
       ELSE /\ pc' = "weekContent"
            /\ result' = NoResult
            /\ calls' = [ai |-> AiCall(0), create |-> 0]
    /\ sessions' = <<>>
    /\ startTime' = NoStart
    /\ currentTime' = InvalidDate
    /\ topics' = NoTopics
    /\ breaks' = <<>>
    /\ dailyTargets' = None
    /\ content' = NoContent
    /\ weekContent' = NoWeekReturn
    /\ data' = NoData
    /\ UNCHANGED <<ai, studyPlan, schedules>>
    /\ UNCHANGED planVars
    /\ now' = now

\* generateWeekContent settles; `later` is the number of days by which the clock
\* advances between the two date computations of generateWeekMetadata
WeekContentReturn(reply, later) ==
    /\ pc = "weekContent"
    /\ LET wc == generateWeekContent(studyPlan, op.num, reply)
       IN /\ weekContent' = [called |-> TRUE, reply |-> reply.kind, value |-> wc]
          /\ IF wc.isNull
             THEN /\ pc' = "done"
                  /\ result' = WeekScheduleError(<<"TypeError">>)
                  /\ UNCHANGED <<data, calls>>
             ELSE /\ pc' = "create"
                  /\ data' = WeekData(studyPlan, op.num, wc,
                                      generateWeekMetadata(op.num, op.total, studyPlan, later))
                  /\ calls' = [calls EXCEPT !.create = @ + 1]
                  /\ UNCHANGED result
    /\ UNCHANGED <<ai, studyPlan, op, sessions, startTime, currentTime, topics, breaks,
                   dailyTargets, content, schedules>>
    /\ UNCHANGED planVars
    /\ now' = now

----------------------------------------------------------------------------
(* prisma.schedule.create *)

\* the row the store returns for `data`
Row(id, d, t) == [id |-> id, data |-> d, createdAt |-> t]

\* the index a schedule is generated for
IndexOf(d) == IF d.type = "DAILY" THEN d.dayNumber ELSE d.weekNumber

\* a variant that overwrites the schedule already stored for the same plan and
\* index, as an upsert would
Upsert(rows, row) ==
    LET same(k) == /\ rows[k].data.type = row.data.type
                   /\ rows[k].data.studyPlanId = row.data.studyPlanId
                   /\ IndexOf(rows[k].data) = IndexOf(row.data)
    IN IF \E k \in 1..Len(rows) : same(k)
       THEN [k \in 1..Len(rows) |->
                IF same(k) THEN [row EXCEPT !.id = rows[k].id] ELSE rows[k]]
       ELSE Append(rows, row)

\* prisma.schedule.create inserts a new row
Insert(rows, row) == Append(rows, row)

\* a variant of the check for a store that hands the sessions back as a bare list
InvalidScheduleStructureList(row) == "set" \notin DOMAIN row.data

\* the check of generateDaySchedule on the created schedule:
\* !schedule || !schedule.sessions || !schedule.sessions.set
InvalidScheduleStructure(row) == "set" \notin DOMAIN row.data.sessions

\* the create call settles: the store inserts the row, or rejects the call
\* (always, when `data` does not fit the columns of Schedule)
CreateReturn(accepted) ==
    /\ pc = "create"
    /\ accepted => SchemaAccepts(data)
    /\ pc' = "done"
    /\ IF accepted
       THEN LET row == Row(Len(schedules) + 1, data, now + 1)
            IN /\ schedules' = Insert(schedules, row)
               /\ now' = now + 1
               /\ result' = IF op.kind = "day" /\ InvalidScheduleStructure(row)
                            THEN ScheduleError(<<"Failed to create valid schedule structure">>)
                            ELSE Resolved
       ELSE /\ schedules' = schedules
            /\ now' = now
            /\ result' = IF op.kind = "day"
                         THEN ScheduleError(<<"create rejected">>)
                         ELSE WeekScheduleError(<<"create rejected">>)
    /\ UNCHANGED <<ai, studyPlan, op, sessions, startTime, currentTime, topics, breaks,
                   dailyTargets, content, weekContent, data, calls>>
    /\ UNCHANGED planVars

----------------------------------------------------------------------------

\* the caller takes the settled promise; the locals of the invocation are gone
Return ==
    /\ pc = "done"
    /\ pc' = "idle"
    /\ op' = NoOp
    /\ sessions' = <<>>
    /\ startTime' = NoStart
    /\ currentTime' = InvalidDate
    /\ topics' = NoTopics
    /\ breaks' = <<>>
    /\ dailyTargets' = None
    /\ content' = NoContent
    /\ weekContent' = NoWeekReturn
    /\ data' = NoData
    /\ result' = NoResult
    /\ calls' = NoCalls
    /\ UNCHANGED <<ai, studyPlan, schedules>>
    /\ UNCHANGED planVars
    /\ now' = now

----------------------------------------------------------------------------
(* StudyPlanService *)

\* the state of ScheduleService and of its caller, the Schedule table aside
scheduleVars == <<ai, studyPlan, pc, op, sessions, startTime, currentTime, topics, breaks,
                  dailyTargets, content, weekContent, data, result, calls>>

Digit == <<"0", "1", "2", "3", "4", "5", "6", "7", "8", "9">>

\* String(n) of a natural number
RECURSIVE String(_)
String(n) == IF n < 10 THEN Digit[n + 1] ELSE String(n \div 10) \o Digit[(n % 10) + 1]

\* plan.f || fallback, where plan.f is an array or is missing
Field(p, f, fallback) == IF f \in DOMAIN p THEN p[f] ELSE fallback

\* a failed promise of the store, by what the error says (its code or class)
StoreError(code) == Rejected(<<code>>)

\* a resolved promise and its value
Returned(v) == [status |-> "ok", msg |-> <<>>, value |-> v]

\* throw new Error('Invalid study plan ID')
InvalidId == Rejected(<<"Invalid study plan ID">>)

\* throw new Error(`Study plan with id ${id} not found`)
NotFound(id) == Rejected(<<"Study plan with id ", String(id), " not found">>)

\* validateId(id): !id || isNaN(Number(id))
validateId(id) == id # 0

\* the columns of StudyPlan a caller can write, and those a row must be given
PlanFields ==
    {"userId", "exam", "studyDuration", "dailyHours", "subjects", "optionals",
     "studyStyle", "numberOfAttempts"}
RequiredPlanFields == {"userId", "exam", "studyDuration", "dailyHours", "subjects"}
UpdatedFields == PlanFields \ {"userId"}

\* the store accepts the data of prisma.studyPlan.create
PlanFits(p) == RequiredPlanFields \subseteq DOMAIN p

\* the store accepts the data of a studySession create: every resource has the
\* required columns of Resource
SessionFits(s) ==
    \A k \in 1..Len(s.resources) : {"name", "type"} \subseteq DOMAIN s.resources[k]

\* the data createPlan hands to prisma.studyPlan.create, as the row stored at `t`
PlanRow(p, t) ==
    [userId |-> p.userId, exam |-> p.exam, studyDuration |-> p.studyDuration,
     dailyHours |-> p.dailyHours, subjects |-> p.subjects,
     optionals |-> Field(p, "optionals", <<>>),
     studyStyle |-> Field(p, "studyStyle", <<>>),
     numberOfAttempts |-> Field(p, "numberOfAttempts", 1),
     createdAt |-> t, updatedAt |-> t]

\* formatStudySessions(sessions): sessions?.map(...) || []
formatStudySessions(u) ==
    LET list == Field(u, "studySessions", <<>>)
    IN [k \in 1..Len(list) |-> [day |-> String(list[k].day), resources |-> list[k].resources]]

\* the StudySession rows of the formatted sessions `list` for plan `id`
SessionRows(id, list) ==
    [k \in 1..Len(list) |->
        [studyPlanId |-> id, day |-> list[k].day, resources |-> Len(list[k].resources)]]

\* the rows of a table that belong to plan `id`, and the others
SessionsOf(rows, id) == SelectSeq(rows, LAMBDA r : r.studyPlanId = id)
SessionsNotOf(rows, id) == SelectSeq(rows, LAMBDA r : r.studyPlanId # id)

\* include: { studySessions: { include: { resources: true } } }
Included(ps, ss, id) == [id |-> id, plan |-> ps[id], studySessions |-> SessionsOf(ss, id)]

\* a plan table without the row of `id`
Without(ps, id) == [k \in DOMAIN ps \ {id} |-> ps[k]]

\* a variant of the update that creates the new sessions and keeps the old ones
ApplyUpdateKeepSessions(ps, ss, id, u, t) ==
    [plans |-> [k \in DOMAIN ps |->
                   IF k # id THEN ps[k]
                   ELSE [f \in DOMAIN ps[k] |->
                            IF f = "updatedAt" THEN t
                            ELSE IF f \in UpdatedFields \cap DOMAIN u THEN u[f]
                            ELSE ps[k][f]]],
     studySessions |-> ss \o SessionRows(id, formatStudySessions(u))]

\* a variant of the update that writes updatedPlan.dailyHours || 6
ApplyUpdateResetOmitted(ps, ss, id, u, t) ==
    [plans |-> [k \in DOMAIN ps |->
                   IF k # id THEN ps[k]
                   ELSE [f \in DOMAIN ps[k] |->
                            IF f = "updatedAt" THEN t
                            ELSE IF f \in UpdatedFields \cap DOMAIN u THEN u[f]
                            ELSE IF f = "dailyHours" THEN DefaultDailyHours
                            ELSE ps[k][f]]],
     studySessions |-> SessionsNotOf(ss, id) \o SessionRows(id, formatStudySessions(u))]

\* prisma.studyPlan.update({ where: { id }, data: { exam: u.exam, ...,
\* studySessions: { deleteMany: {}, create: formatStudySessions(u.studySessions) } } }):
\* a field that is undefined in `data` is left as it is
ApplyUpdate(ps, ss, id, u, t) ==
    [plans |-> [k \in DOMAIN ps |->
                   IF k # id THEN ps[k]
                   ELSE [f \in DOMAIN ps[k] |->
                            IF f = "updatedAt" THEN t
                            ELSE IF f \in UpdatedFields \cap DOMAIN u THEN u[f]
                            ELSE ps[k][f]]],
     studySessions |-> SessionsNotOf(ss, id) \o SessionRows(id, formatStudySessions(u))]

\* a variant of the catch clause of deletePlanById that rethrows what it caught
DeleteErrorRethrown(code, id) == StoreError(code)

\* the catch clause of deletePlanById:
\* if (error.code === 'P2025') throw new Error(`Study plan with id ${id} not found`)
DeleteError(code, id) == IF code = "P2025" THEN NotFound(id) ELSE StoreError(code)

\* task t moves on
SetTask(t, pcNext, id, r) ==
    tasks' = [tasks EXCEPT ![t] = [@ EXCEPT !.pc = pcNext, !.id = id, !.result = r]]

\* createPlan(plan) up to prisma.studyPlan.create
StartCreatePlan(t, p) ==
    /\ tasks[t].pc = "idle"
    /\ tasks' = [tasks EXCEPT ![t] = [kind |-> "createPlan", pc |-> "create", id |-> 0,
                                      arg |-> p, result |-> NoResult]]
    /\ UNCHANGED <<scheduleVars, schedules, plans, nextPlanId, studySessions, now>>

\* prisma.studyPlan.create settles; createPlan goes on to createStudySessions
\* when plan.studySessions?.length > 0, and to getPlanById otherwise
PlanCreateReturn(t) ==
    /\ tasks[t].pc = "create"
    /\ LET p == tasks[t].arg
       IN IF PlanFits(p)
          THEN /\ plans' = [k \in DOMAIN plans \cup {nextPlanId} |->
                               IF k = nextPlanId THEN PlanRow(p, now + 1) ELSE plans[k]]
               /\ nextPlanId' = nextPlanId + 1
               /\ now' = now + 1
               /\ SetTask(t, IF Len(Field(p, "studySessions", <<>>)) > 0
                             THEN "sessions" ELSE "find",
                          nextPlanId, NoResult)
          ELSE /\ SetTask(t, "done", 0, StoreError("PrismaClientValidationError"))
               /\ UNCHANGED <<plans, nextPlanId, now>>
    /\ UNCHANGED <<scheduleVars, schedules, studySessions>>

\* createStudySessions(planId, sessions): Promise.all over one
\* prisma.studySession.create per session; each create is a call of its own, and
\* the promise rejects when one of them does
SessionsCreateReturn(t) ==
    /\ tasks[t].pc = "sessions"
    /\ LET id == tasks[t].id
           list == formatStudySessions(tasks[t].arg)
           accepted(s) == SessionFits(s) /\ id \in DOMAIN plans
           stored == SelectSeq(list, accepted)
       IN /\ studySessions' = studySessions \o SessionRows(id, stored)
          /\ IF Len(stored) = Len(list)
             THEN SetTask(t, "find", id, NoResult)
             ELSE SetTask(t, "done", id,
                          IF id \in DOMAIN plans
                          THEN StoreError("PrismaClientValidationError")
                          ELSE StoreError("P2003"))
    /\ UNCHANGED <<scheduleVars, schedules, plans, nextPlanId, now>>

\* getPlanById(id) up to prisma.studyPlan.findUnique
StartGetPlan(t, id) ==
    /\ tasks[t].pc = "idle"
    /\ tasks' = [tasks EXCEPT ![t] =
                    [kind |-> "getPlanById", pc |-> IF validateId(id) THEN "find" ELSE "done",
                     id |-> id, arg |-> NoArg,
                     result |-> IF validateId(id) THEN NoResult ELSE InvalidId]]
    /\ UNCHANGED <<scheduleVars, schedules, plans, nextPlanId, studySessions, now>>

\* prisma.studyPlan.findUnique settles, in getPlanById or at the end of createPlan:
\* if (!plan) throw new Error(`Study plan with id ${validId} not found`)
FindReturn(t) ==
    /\ tasks[t].pc = "find"
    /\ LET id == tasks[t].id
       IN SetTask(t, "done", id,
                  IF id \in DOMAIN plans
                  THEN Returned(Included(plans, studySessions, id))
                  ELSE NotFound(id))
    /\ UNCHANGED <<scheduleVars, schedules, plans, nextPlanId, studySessions, now>>

\* updatePlanById(id, updatedPlan) up to prisma.studyPlan.update
StartUpdatePlan(t, id, u) ==
    /\ tasks[t].pc = "idle"
    /\ tasks' = [tasks EXCEPT ![t] =
                    [kind |-> "updatePlanById",
                     pc |-> IF validateId(id) THEN "update" ELSE "done",
                     id |-> id, arg |-> u,
                     result |-> IF validateId(id) THEN NoResult ELSE InvalidId]]
    /\ UNCHANGED <<scheduleVars, schedules, plans, nextPlanId, studySessions, now>>

\* prisma.studyPlan.update settles: one call, whose nested writes the store
\* applies together or not at all
UpdateReturn(t) ==
    /\ tasks[t].pc = "update"
    /\ LET id == tasks[t].id
           u == tasks[t].arg
           list == formatStudySessions(u)
           after == ApplyUpdate(plans, studySessions, id, u, now + 1)
       IN IF id \notin DOMAIN plans
          THEN /\ SetTask(t, "done", id, StoreError("P2025"))
               /\ UNCHANGED <<plans, studySessions, now>>
          ELSE IF \E k \in 1..Len(list) : ~SessionFits(list[k])
          THEN /\ SetTask(t, "done", id, StoreError("PrismaClientValidationError"))
               /\ UNCHANGED <<plans, studySessions, now>>
          ELSE /\ plans' = after.plans
               /\ studySessions' = after.studySessions
               /\ now' = now + 1
               /\ SetTask(t, "done", id,
                          Returned(Included(after.plans, after.studySessions, id)))
    /\ UNCHANGED <<scheduleVars, schedules, nextPlanId>>

\* deletePlanById(id) up to prisma.studySession.deleteMany
StartDeletePlan(t, id) ==
    /\ tasks[t].pc = "idle"
    /\ tasks' = [tasks EXCEPT ![t] =
                    [kind |-> "deletePlanById",
                     pc |-> IF validateId(id) THEN "deleteMany" ELSE "done",
                     id |-> id, arg |-> NoArg,
                     result |-> IF validateId(id) THEN NoResult ELSE InvalidId]]
    /\ UNCHANGED <<scheduleVars, schedules, plans, nextPlanId, studySessions, now>>

\* prisma.studySession.deleteMany({ where: { studyPlanId } }) settles
DeleteManyReturn(t) ==
    /\ tasks[t].pc = "deleteMany"
    /\ studySessions' = SessionsNotOf(studySessions, tasks[t].id)
    /\ SetTask(t, "delete", tasks[t].id, NoResult)
    /\ UNCHANGED <<scheduleVars, schedules, plans, nextPlanId, now>>

\* prisma.studyPlan.delete({ where: { id } }) settles: the rows that refer to the
\* plan go with it (onDelete: Cascade); without the row the store fails with P2025
DeleteReturn(t) ==
    /\ tasks[t].pc = "delete"
    /\ LET id == tasks[t].id
       IN IF id \in DOMAIN plans
          THEN /\ plans' = Without(plans, id)
               /\ studySessions' = SessionsNotOf(studySessions, id)
               /\ schedules' = SelectSeq(schedules, LAMBDA r : r.data.studyPlanId # Num(id))
               /\ SetTask(t, "done", id, Returned(Included(plans, studySessions, id)))
          ELSE /\ SetTask(t, "done", id, DeleteError("P2025", id))
               /\ UNCHANGED <<plans, studySessions, schedules>>
    /\ UNCHANGED <<scheduleVars, nextPlanId, now>>

\* the caller takes the settled promise
TaskReturn(t) ==
    /\ tasks[t].pc = "done"
    /\ tasks' = [tasks EXCEPT ![t] = NoTask]
    /\ UNCHANGED <<scheduleVars, schedules, plans, nextPlanId, studySessions, now>>

\* what callers pass: study sessions, one of them with a resource that lacks
\* its type
StudySessionInput(day) == [day |-> day, resources |-> <<>>]
BadSessionInput(day) == [day |-> day, resources |-> <<[name |-> "Book"]>>]

\* a plan as the tests create it, with and without study sessions
BasePlan ==
    [userId |-> "user-1", exam |-> "UPSC", studyDuration |-> "6 months",
     dailyHours |-> 2, subjects |-> <<"Math", "Science">>]

WithSessions(p, list) ==
    [f \in DOMAIN p \cup {"studySessions"} |-> IF f = "studySessions" THEN list ELSE p[f]]

PlanInputs ==
    {BasePlan,
     [f \in DOMAIN BasePlan \ {"exam"} |-> BasePlan[f]],
     WithSessions(BasePlan, <<StudySessionInput(1), StudySessionInput(2)>>),
     WithSessions(BasePlan, <<StudySessionInput(1), BadSessionInput(2)>>)}

\* the update of caller t when callers update at the same time: dailyHours and
\* one study session of its own
UpdateOf(t) ==
    [dailyHours |-> MaxHours + t, studySessions |-> <<StudySessionInput(MaxHours + t)>>]

\* the updates callers pass
Updates ==
    {UpdateOf(t) : t \in TaskIds}
      \cup {[subjects |-> <<"New Subject">>],
            [exam |-> "GATE", studySessions |-> <<BadSessionInput(1)>>]}

\* ids callers pass: those of the rows, and 0
IdArgs == 0..MaxPlans

\* the caller of a test, who awaits each call before making the next
Caller == 1

\* generateDaySchedule, invoked time and again
DayNext ==
    \/ Return
    \/ \E d \in DayNumbers, t \in TotalDays :
          Len(schedules) < MaxSchedules /\ StartDay(d, t)
    \/ \E r \in Endings(TopicReplies, TopicReply("typeerror", <<>>)) : TopicsReturn(r)
    \/ \E r \in Endings(DayTargetReplies, TargetReply("typeerror", 0)) : TargetsReturn(r)
    \/ \E accepted \in BOOLEAN : CreateReturn(accepted)

DaySpec == Init /\ [][DayNext]_vars

\* generateDaySchedule and generateWeekSchedule, invoked against an empty store
\* (no step of a generation reads the stored schedules), where every pending
\* collaborator or store call eventually settles
LiveNext ==
    \/ Return
    \/ \E d \in DayNumbers, t \in TotalDays : schedules = <<>> /\ StartDay(d, t)
    \/ \E w \in DayNumbers, t \in TotalDays : schedules = <<>> /\ StartWeek(w, t)
    \/ \E r \in Endings(TopicReplies, TopicReply("typeerror", <<>>)) : TopicsReturn(r)
    \/ \E r \in Endings(DayTargetReplies, TargetReply("typeerror", 0)) : TargetsReturn(r)
    \/ \E r \in Endings(WeekReplies, WeekReply("typeerror")), later \in {0, 1} :
          WeekContentReturn(r, later)
    \/ \E accepted \in BOOLEAN : CreateReturn(accepted)

\* an awaited call settles: it returns or it fails
Settle ==
    \/ \E r \in Endings(TopicReplies, TopicReply("typeerror", <<>>)) : TopicsReturn(r)
    \/ \E r \in Endings(DayTargetReplies, TargetReply("typeerror", 0)) : TargetsReturn(r)
    \/ \E r \in Endings(WeekReplies, WeekReply("typeerror")), later \in {0, 1} :
          WeekContentReturn(r, later)
    \/ \E accepted \in BOOLEAN : CreateReturn(accepted)

LiveSpec == Init /\ [][LiveNext]_vars /\ WF_vars(Settle)

\* generateDailyTargets, invoked on the service directly
TargetsNext ==
    \/ Return
    \/ \E d \in DayNumbers : StartTargets(d)
    \/ \E r \in Endings(TargetReplies, TargetReply("typeerror", 0)) : TargetsReturn(r)

TargetsSpec == Init /\ [][TargetsNext]_vars

\* generateWeekSchedule, invoked time and again
WeekNext ==
    \/ Return
    \/ \E w \in WeekNumbers, t \in TotalWeeks :
          Len(schedules) < MaxSchedules /\ StartWeek(w, t)
    \/ \E r \in Endings(WeekReplies, WeekReply("typeerror")), later \in {0, 1} :
          WeekContentReturn(r, later)
    \/ \E accepted \in BOOLEAN : CreateReturn(accepted)

WeekSpec == Init /\ [][WeekNext]_vars

\* a well-formed plan whose schedules are generated again and again
StoredPlan == Plan(Num(1), "user-1", Array(<<"Math", "Science">>), Num(2), NoStartTime)

StoreInit == Init /\ ai = "ok" /\ studyPlan = StoredPlan

\* generateDaySchedule and generateWeekSchedule, invoked time and again for the
\* indexes of one plan
StoreNext ==
    \/ Return
    \/ \E d \in 1..MaxStored : Len(schedules) < MaxStored /\ StartDay(d, MaxStored)
    \/ \E k \in {"reject", "array"} : TopicsReturn(TopicReply(k, IF k = "array" THEN AiTopics ELSE <<>>))
    \/ \E r \in {TargetReply("reject", 0), TargetReply("json_array", 1)} : TargetsReturn(r)
    \/ \E w \in 1..MaxStored : Len(schedules) < MaxStored /\ StartWeek(w, MaxStored)
    \/ \E k \in {"reject", "object"} : WeekContentReturn(WeekReply(k), 0)
    \/ \E accepted \in BOOLEAN : CreateReturn(accepted)

StoreSpec == StoreInit /\ [][StoreNext]_vars

\* the calls of StudyPlanService, one after the other
PlanNext ==
    \/ TaskReturn(Caller)
    \/ \E p \in PlanInputs :
          nextPlanId <= MaxPlans /\ now < MaxClock /\ StartCreatePlan(Caller, p)
    \/ PlanCreateReturn(Caller)
    \/ SessionsCreateReturn(Caller)
    \/ \E id \in IdArgs : StartGetPlan(Caller, id)
    \/ FindReturn(Caller)
    \/ \E id \in IdArgs, u \in Updates : now < MaxClock /\ StartUpdatePlan(Caller, id, u)
    \/ UpdateReturn(Caller)
    \/ \E id \in IdArgs : StartDeletePlan(Caller, id)
    \/ DeleteManyReturn(Caller)
    \/ DeleteReturn(Caller)

PlanInit == Init /\ ai = "ok" /\ studyPlan = StoredPlan

PlanSpec == PlanInit /\ [][PlanNext]_vars

\* the store once createPlan has stored the base plan with two study sessions:
\* the row behind the plan object the caller holds
OnePlanStored ==
    /\ Constructed /\ ai = "ok" /\ studyPlan = StoredPlan
    /\ plans = [id \in {StoredPlan.id.v} |-> PlanRow(BasePlan, 0)]
    /\ nextPlanId = StoredPlan.id.v + 1
    /\ studySessions =
          SessionRows(StoredPlan.id.v,
                      formatStudySessions(WithSessions(BasePlan, <<StudySessionInput(1),
                                                                  StudySessionInput(2)>>)))

\* the store call of a pending updatePlanById settles
UpdateSettle == \E t \in TaskIds : UpdateReturn(t)

\* callers that each call updatePlanById once, without waiting for one another
ConcurrentNext ==
    \/ \E t \in TaskIds, id \in PlanIds, u \in Updates : StartUpdatePlan(t, id, u)
    \/ UpdateSettle

ConcurrentSpec == OnePlanStored /\ [][ConcurrentNext]_vars /\ WF_vars(UpdateSettle)

\* the test "should handle plan updates and regenerate schedule": day schedules
\* generated from the plan object the caller holds, and updatePlanById with new
\* subjects in between, each call awaited before the next
RegenerateNext ==
    \/ Return
    \/ \E d \in 1..MaxStored :
          /\ Len(schedules) < MaxStored /\ tasks[Caller].pc = "idle"
          /\ StartDay(d, MaxStored)
    \/ \E k \in {"reject", "array"} : TopicsReturn(TopicReply(k, IF k = "array" THEN AiTopics ELSE <<>>))
    \/ \E r \in {TargetReply("reject", 0), TargetReply("json_array", 1)} : TargetsReturn(r)
    \/ \E accepted \in BOOLEAN : CreateReturn(accepted)
    \/ /\ pc = "idle" /\ now < MaxClock
       /\ StartUpdatePlan(Caller, StoredPlan.id.v, [subjects |-> <<"New Subject">>])
    \/ UpdateReturn(Caller)
    \/ TaskReturn(Caller)

RegenerateSpec == OnePlanStored /\ [][RegenerateNext]_vars

----------------------------------------------------------------------------
(* Properties *)

\* the plan has a non-empty list of subjects
HasSubjects == ~studyPlan.isNull /\ studyPlan.subjects.isArray
                  /\ Len(studyPlan.subjects.items) > 0

\* the plan has integer daily hours of at least h
HoursAtLeast(h) == ~studyPlan.isNull /\ studyPlan.dailyHours.t = "num"
                      /\ studyPlan.dailyHours.v >= h

\* a day composition is under way or has settled
DayInvoked == op.kind = "day"

\* C1: for a plan with a non-empty list of subjects and integer dailyHours >= 2
\* and a day index >= 1, the content a day composition returns has
\* floor(dailyHours / 2) sessions, session i (from 0) has the subject
\* subjects[i mod |subjects|] and the type STUDY, and there are n - 1 breaks
\* for n sessions.
C1_SessionsAndBreaks ==
    (content.status = "ok" /\ HasSubjects /\ HoursAtLeast(2) /\ op.num >= 1) =>
        LET subjects == studyPlan.subjects.items
            n == studyPlan.dailyHours.v \div 2
        IN /\ Len(content.sessions) = n
           /\ \A i \in 1..Len(content.sessions) :
                 /\ content.sessions[i].subject = subjects[((i - 1) % Len(subjects)) + 1]
                 /\ content.sessions[i].type = "STUDY"
           /\ Len(content.breaks) = n - 1

\* C1 witness: a returned day of four sessions over two subjects, the first
\* session built from the fallback topic and the second from the collaborator's
C1_Witness ==
    /\ content.status = "ok" /\ HasSubjects /\ HoursAtLeast(2) /\ op.num >= 1
    /\ Len(content.sessions) = 4
    /\ Len(studyPlan.subjects.items) = 2
    /\ content.sessions[1].topics[1].name.tpl = "Basics"
    /\ content.sessions[2].topics[1].name.tpl = "ai"
    /\ content.sessions[3].subject = "Math"
    /\ Len(content.breaks) = 3

\* generateDayBreaks has been applied to the finished list of sessions
BreaksComputed == DayInvoked /\ (pc \in {"targets", "create"} \/ content.status = "ok")

\* C2: for n >= 2 sessions generateDayBreaks yields exactly one LUNCH break
\* (45min), the break after session floor(n/2) - 1, and every other break is
\* SHORT (15min); for n <= 1 it yields no break.
C2_OneLunchBreak ==
    BreaksComputed =>
        LET n == Len(sessions)
            lunch == {k \in 1..Len(breaks) : breaks[k].type = "LUNCH"}
        IN IF n <= 1 THEN breaks = <<>>
           ELSE /\ Len(breaks) = n - 1
                /\ lunch = {n \div 2}
                /\ \A k \in 1..Len(breaks) :
                      IF k \in lunch THEN breaks[k].duration = "45min"
                      ELSE breaks[k].type = "SHORT" /\ breaks[k].duration = "15min"

\* C2 witness: the breaks of four sessions, lunch being the second of three
C2_Witness ==
    /\ BreaksComputed
    /\ Len(sessions) = 4
    /\ Len(breaks) = 3
    /\ breaks[2].type = "LUNCH"
    /\ breaks[1].type = "SHORT"

\* a direct call of generateDailyTargets has settled
TargetsSettled == op.kind = "targets" /\ pc = "done"

\* C3: generateDailyTargets never throws and never returns an empty list, for
\* any plan and any behaviour of the collaborator, a null collaborator included.
C3_NeverThrowsNeverEmpty ==
    TargetsSettled => dailyTargets.status = "ok" /\ dailyTargets.value # <<>>

BasicsOnly(subject) ==
    Array(<<[name |-> [tpl |-> "Basics", arg |-> subject], type |-> "NEW",
             difficulty |-> 1, duration |-> 0]>>)

\* C5: generateTopicsForSubject always returns a list of topics, and whenever
\* the call fails in transport, the text cannot be parsed or the JSON is no
\* array of topics, it returns exactly the one-element fallback list.
C5_TopicsFallback ==
    topics.called =>
        /\ topics.value.isArray
        /\ topics.reply \in {"typeerror", "reject", "notext", "nonjson", "nonarray"}
              => topics.value = BasicsOnly(topics.subject)

\* C6: a day composition for a plan with subjects, dailyHours >= 2 and a day
\* index >= 1 never fails because of the collaborator.
C6_CollaboratorNeverFailsDay ==
    (DayInvoked /\ HasSubjects /\ HoursAtLeast(2) /\ op.num >= 1) =>
        content.status # "error"

\* C7: when floor(dailyHours / 2) is 0 for a plan with subjects, the day
\* composition fails; no day with an empty list of sessions is returned or
\* persisted.
C7_NoEmptyDay ==
    (DayInvoked /\ HasSubjects /\ studyPlan.dailyHours = Num(1)
        /\ 1 <= op.num /\ op.num <= op.total) =>
        /\ content.status # "ok"
        /\ \A k \in 1..Len(schedules) : schedules[k].data.sessions.set # <<>>

\* C8: a plan whose dailyHours is 0, negative, missing or not a number makes
\* the day composition fail at once: no other value takes its place and no
\* session is scheduled from it.
C8_BadHoursFailFast ==
    (DayInvoked /\ ~studyPlan.isNull /\ ~HoursAtLeast(1)) =>
        /\ content.status # "ok"
        /\ pc = "done" => result.status = "error"

\* the plan and the week arguments generateWeekSchedule is documented to take
ValidWeekInput ==
    /\ ~studyPlan.isNull /\ studyPlan.id.t = "num" /\ studyPlan.id.v # 0
    /\ studyPlan.userId # "undefined"
    /\ HasSubjects
    /\ 1 <= op.num /\ op.num <= op.total

\* C9: generateWeekSchedule fails, without calling the collaborator or the
\* store, unless the plan has id, userId and subjects and
\* 1 <= weekIndex <= totalWeeks.
C9_WeekInputRejected ==
    (op.kind = "week" /\ ~ValidWeekInput) =>
        /\ calls = NoCalls
        /\ pc = "done" => result.status = "error"

\* the week metadata has been computed
WeekComposed == op.kind = "week" /\ data.type = "WEEKLY"

\* C10 as stated: week 1 of N is FOUNDATION and week N of N is FINAL_REVISION
\* for every N >= 1, and week 4 of 10 is REVISION.
C10_Original ==
    WeekComposed =>
        /\ op.num = 1 => data.metadata.weekType = "FOUNDATION"
        /\ op.num = op.total => data.metadata.weekType = "FINAL_REVISION"
        /\ (op.num = 4 /\ op.total = 10) => data.metadata.weekType = "REVISION"

\* C10 amended: week 1 of N is FOUNDATION for every N >= 1, week N of N is
\* FINAL_REVISION for every N >= 2, and week 4 of 10 is REVISION.
C10_WeekArchetypes ==
    WeekComposed =>
        /\ op.num = 1 => data.metadata.weekType = "FOUNDATION"
        /\ (op.num = op.total /\ op.total >= 2) => data.metadata.weekType = "FINAL_REVISION"
        /\ (op.num = 4 /\ op.total = 10) => data.metadata.weekType = "REVISION"

\* C10 witness: the metadata of week 4 of 10 has been computed
C10_Witness ==
    /\ WeekComposed
    /\ data.metadata.currentWeek = 4 /\ data.metadata.totalWeeks = 10
    /\ data.metadata.weekType = "REVISION"

\* C11: for 1 <= weekIndex <= totalWeeks the week type is given by the first
\* rule that matches, in the order: index 1 -> FOUNDATION; index = totalWeeks ->
\* FINAL_REVISION; multiple of 4 -> REVISION; even -> PRACTICE; otherwise
\* CORE_CONCEPTS; the revision flag is (weekIndex mod 4 = 0) and weekProgress is
\* weekIndex / totalWeeks * 100 (week 5 of 20: 25, no revision, CORE_CONCEPTS).
C11_WeekMetadataRules ==
    (WeekComposed /\ 1 <= op.num /\ op.num <= op.total) =>
        LET w == op.num
            n == op.total
            md == data.metadata
        IN /\ w = 1 => md.weekType = "FOUNDATION"
           /\ (w # 1 /\ w = n) => md.weekType = "FINAL_REVISION"
           /\ (w # 1 /\ w # n /\ w % 4 = 0) => md.weekType = "REVISION"
           /\ (w # 1 /\ w # n /\ w % 4 # 0 /\ w % 2 = 0) => md.weekType = "PRACTICE"
           /\ (w # 1 /\ w # n /\ w % 2 # 0) => md.weekType = "CORE_CONCEPTS"
           /\ md.revision = (w % 4 = 0)
           /\ md.weekProgress.den # 0
           /\ md.weekProgress.num * n = w * 100 * md.weekProgress.den
           /\ (w = 5 /\ n = 20) =>
                 /\ md.weekProgress.num = 25 * md.weekProgress.den
                 /\ ~md.revision
                 /\ md.weekType = "CORE_CONCEPTS"

\* C11 witness: the metadata of week 5 of 20 has been computed
C11_Witness ==
    /\ WeekComposed
    /\ op.num = 5 /\ op.total = 20
    /\ data.metadata.weekProgress = [num |-> 500, den |-> 20]
    /\ data.metadata.weekType = "CORE_CONCEPTS"

\* C12: after any sequence of generateDaySchedule calls, every persisted DAILY
\* schedule has metadata with 1 <= currentDay <= totalDays and
\* progress = currentDay / totalDays * 100, hence 0 < progress <= 100.
C12_PersistedDayInRange ==
    \A k \in 1..Len(schedules) :
        schedules[k].data.type = "DAILY" =>
            LET md == schedules[k].data.metadata
            IN /\ 1 <= md.currentDay /\ md.currentDay <= md.totalDays
               /\ md.progress.den > 0
               /\ md.progress.num * md.totalDays = md.currentDay * 100 * md.progress.den
               /\ 0 < md.progress.num /\ md.progress.num <= 100 * md.progress.den

\* the minutes after midnight a 12-hour clock string stands for
ClockMinutes(c) == ((c.hour % 12) + (IF c.pm THEN 12 ELSE 0)) * 60 + c.minute

\* C13: in every generated day the sessions' start times, as clock times of
\* day, are non-decreasing in list order, and the start time of session i+1 is
\* the start time of session i plus the duration computed for session i
\* (stated here for the days whose start time is a clock string).
C13_StartTimesOrdered ==
    (DayInvoked /\ startTime.called /\ startTime.value.valid) =>
        \A i \in 1..(Len(sessions) - 1) :
            /\ sessions[i].time.valid /\ sessions[i + 1].time.valid
            /\ ClockMinutes(sessions[i].time) <= ClockMinutes(sessions[i + 1].time)
            /\ ClockMinutes(sessions[i + 1].time)
                  = ClockMinutes(sessions[i].time) + sessions[i].duration

\* within a generateDaySchedule invocation: create has been called exactly when
\* content and metadata were composed, and at most once
CreateCalledWhenComposed ==
    DayInvoked =>
        /\ calls.create <= 1
        /\ calls.create = 1 <=> (content.status = "ok" /\ op.num # 0 /\ op.total # 0)
        /\ content.status = "error" => calls.create = 0

\* the step that settles the create call of generateDaySchedule: the invocation
\* ends there without another create, and a create that stored nothing has
\* made the invocation fail
CreateNotRetried ==
    (pc = "create" /\ op.kind = "day") =>
        /\ pc' = "done"
        /\ calls' = calls
        /\ schedules' = schedules => result'.status = "error"
        /\ schedules' # schedules => Len(schedules') = Len(schedules) + 1

\* C14: each generateDaySchedule invocation calls the store's create at most
\* once: exactly once when content and metadata were composed, never when the
\* composition failed; a failed create is not retried and fails the invocation.
C14_CreateAtMostOnce == [](CreateCalledWhenComposed) /\ [][CreateNotRetried]_vars

\* C14 witness: an invocation has ended in failure after its one create call
\* stored nothing
C14_Witness ==
    /\ DayInvoked /\ pc = "done"
    /\ calls.create = 1
    /\ schedules = <<>>
    /\ result.status = "error"

\* a step leaves every stored schedule as it was and adds at most one; the step
\* that settles a create call with success adds exactly one
StoredSchedulesKept ==
    /\ Len(schedules') >= Len(schedules)
    /\ Len(schedules') <= Len(schedules) + 1
    /\ \A k \in 1..Len(schedules) : schedules'[k] = schedules[k]
    /\ (pc = "create" /\ result'.status = "ok") => Len(schedules') = Len(schedules) + 1

\* C15: generateDaySchedule and generateWeekSchedule never update or delete a
\* stored schedule: generating again for a (plan, index) pair that already has
\* a schedule adds one new record and leaves every stored schedule unchanged.
C15_NoUpdateNoDelete == [][StoredSchedulesKept]_vars

\* C15 witness: two schedules are stored for the same plan and day, and they
\* differ in content
C15_Witness ==
    /\ Len(schedules) = 2
    /\ schedules[1].data.studyPlanId = schedules[2].data.studyPlanId
    /\ schedules[1].data.dayNumber = schedules[2].data.dayNumber
    /\ schedules[1].id # schedules[2].id
    /\ schedules[1].data.sessions # schedules[2].data.sessions

\* C16: generateDaySchedule called with a null plan, with no day index (or 0),
\* or with a plan whose list of subjects is missing or empty rejects with a
\* message that starts with 'Failed to generate schedule' (and holds 'error'
\* when it is the subjects that are missing), and no schedule is created.
C16_InvalidDayInputRejected ==
    (DayInvoked /\ (studyPlan.isNull \/ op.num = 0 \/ ~HasSubjects)) =>
        /\ pc = "done"
        /\ result.status = "error"
        /\ Len(result.msg) >= 2
        /\ result.msg[1] = "Failed to generate schedule"
        /\ (~studyPlan.isNull /\ ~HasSubjects) =>
              result.msg[2] = "error: Failed to generate content"
        /\ calls.create = 0
        /\ data = NoData

\* C16 witness: a call for day 1 with a plan whose subjects are an empty list
\* has been rejected
C16_Witness ==
    /\ DayInvoked /\ op.num = 1
    /\ ~studyPlan.isNull /\ studyPlan.subjects = Array(<<>>)
    /\ pc = "done"
    /\ result.status = "error"
    /\ result.msg[Len(result.msg)] = "Invalid subjects array"

\* the 12-hour clock string of h:m, for 0 <= h < 24 and 0 <= m < 60
Rendering(h, m) ==
    [valid |-> TRUE, hour |-> IF h % 12 = 0 THEN 12 ELSE h % 12, minute |-> m, pm |-> h >= 12]

\* a preferred time of the form 'HH:MM' that names a time of day
WellFormedTime(t) == t.kind = "hhmm" /\ t.h \in 0..23 /\ t.m \in 0..59

\* C17: calculateDayStartTime never throws and always returns a 12-hour clock
\* string: the rendering of the given time for a well-formed 'HH:MM' (09:00
\* when none is given), and the literal '9:00 AM' for every malformed input.
C17_StartTimeAlwaysClock ==
    startTime.called =>
        /\ startTime.value.valid
        /\ WellFormedTime(startTime.arg) =>
              startTime.value = Rendering(startTime.arg.h, startTime.arg.m)
        /\ ~WellFormedTime(startTime.arg) => startTime.value = Rendering(9, 0)

\* {focus: 'Week <n> Core Studies', weeklyTargets: ['Master <subject>']}
CoreStudies(n, subject) ==
    [isNull |-> FALSE, defined |-> {"focus", "weeklyTargets"},
     focus |-> [tpl |-> "Week Core Studies", n |-> n, arg |-> ""],
     weeklyTargets |-> <<[tpl |-> "Master", arg |-> subject]>>]

\* C18: when the week-content request fails (transport error, text that cannot
\* be parsed, JSON that does not fit the schema), generateWeekContent returns
\* exactly {focus: 'Week <n> Core Studies', weeklyTargets: ['Master <first
\* subject>']} and the week composition goes on to the create call.
C18_WeekContentFallback ==
    (op.kind = "week" /\ ValidWeekInput /\ weekContent.called
        /\ weekContent.reply # "object") =>
        /\ weekContent.value = CoreStudies(op.num, studyPlan.subjects.items[1])
        /\ calls.create = 1

\* generateWeekSchedule, on a service that has its collaborator, has composed
\* the record and called create with it
WeekCreateCalled == ai = "ok" /\ op.kind = "week" /\ ValidWeekInput /\ pc = "create"

\* C19: for a valid plan and 1 <= weekNumber <= totalWeeks, the record
\* generateWeekSchedule writes is of type WEEKLY and fits the Schedule schema:
\* every written field is a column and every required column without a default
\* is supplied, so that create accepts it and the call succeeds.
C19_WeekRecordFitsSchema ==
    /\ (WeekCreateCalled /\ weekContent.reply = "object") =>
          /\ data.type = "WEEKLY"
          /\ data.fields \subseteq ScheduleColumns
          /\ RequiredColumns \subseteq data.fields
    /\ (ai = "ok" /\ op.kind = "week" /\ ValidWeekInput /\ pc = "done"
           /\ weekContent.reply = "object") =>
          \E k \in 1..Len(schedules) : schedules[k].data = data

Weekdays == {"monday", "tuesday", "wednesday", "thursday", "friday", "saturday", "sunday"}

\* C20: every week schedule generateWeekSchedule produces carries, besides
\* focus and weeklyTargets, a defined sub-schedule for each of the seven
\* weekdays and a list of weekly tests, whether the collaborator answered or
\* the fallback was used.
C20_WeekdaysAndTests ==
    WeekCreateCalled =>
        /\ {"focus", "weeklyTargets", "weeklyTests"} \subseteq data.fields
        /\ data.sessions = Weekdays

\* C21: in every week metadata startDate is today + (weekIndex - 1) * 7 days
\* and endDate is exactly 6 days after startDate, also when the date changes
\* between the computation of the two; so week k + 1 starts the day after
\* week k ends. Dates are counted in days after the day startDate was computed.
C21_WeekDates ==
    (WeekComposed /\ ValidWeekInput) =>
        /\ data.metadata.startDate = (op.num - 1) * 7
        /\ data.metadata.endDate = data.metadata.startDate + 6
        /\ data.metadata.endDate + 1 = ((op.num + 1) - 1) * 7

\* the types of a list of breaks, in order
BreakTypes(list) == [k \in 1..Len(list) |-> list[k].type]

\* C22 as stated: the weekly breaks template is the same for every plan and
\* week and consists of two daily breaks (short / lunch) and two weekend breaks.
C22_Original ==
    WeekComposed =>
        /\ Len(data.breaks.dailyBreaks) = 2
        /\ BreakTypes(data.breaks.dailyBreaks) = <<"SHORT", "LUNCH">>
        /\ Len(data.breaks.weekendBreaks) = 2

\* C22 amended: the weekly breaks template is the same for every plan and week
\* and consists of three daily breaks (short, lunch, short) and two weekend
\* breaks (long, recreation).
C22_WeeklyBreaksTemplate ==
    WeekComposed =>
        /\ BreakTypes(data.breaks.dailyBreaks) = <<"SHORT", "LUNCH", "SHORT">>
        /\ BreakTypes(data.breaks.weekendBreaks) = <<"LONG", "RECREATION">>
        /\ [k \in 1..3 |-> data.breaks.dailyBreaks[k].time] = <<"11:00 AM", "1:00 PM", "4:00 PM">>
        /\ [k \in 1..3 |-> data.breaks.dailyBreaks[k].duration] = <<"15min", "45min", "15min">>
        /\ [k \in 1..2 |-> data.breaks.weekendBreaks[k].time] = <<"11:30 AM", "2:00 PM">>
        /\ [k \in 1..2 |-> data.breaks.weekendBreaks[k].duration] = <<"30min", "60min">>

\* C22 witness: the template is attached to week 3 of a plan of two subjects
\* whose content came from the fallback
C22_Witness ==
    /\ WeekComposed
    /\ op.num = 3
    /\ Len(studyPlan.subjects.items) = 2
    /\ weekContent.reply = "reject"
    /\ Len(data.breaks.dailyBreaks) = 3

\* the sessions generateDaySessions is to produce
SessionsWanted ==
    LET n == SessionsPerDay(normalizeStudyPlan(studyPlan)) IN IF n > 0 THEN n ELSE 0

\* C27: within one day composition the topic requests are issued one at a
\* time: while request i + 1 is pending exactly i sessions have been appended
\* and neither breaks nor daily targets exist; breaks are computed and the
\* daily-target request is issued only once all sessions exist.
C27_SequentialCalls ==
    DayInvoked =>
        /\ pc = "topics" =>
              /\ Len(sessions) < SessionsWanted
              /\ ai = "ok" => calls.ai = Len(sessions) + 1
              /\ breaks = <<>>
              /\ dailyTargets = None
        /\ pc = "targets" =>
              /\ Len(sessions) = SessionsWanted
              /\ ai = "ok" => calls.ai = Len(sessions) + 1
              /\ breaks = generateDayBreaks(sessions)
        /\ (breaks # <<>> \/ dailyTargets.status = "ok") => Len(sessions) = SessionsWanted

\* C27 witness: the daily-target request is pending after three sessions were
\* appended one after the other
C27_Witness ==
    /\ DayInvoked /\ ai = "ok" /\ pc = "targets"
    /\ Len(sessions) = 3
    /\ calls.ai = 4
    /\ Len(breaks) = 2

\* the daily-target requests and the topic requests issued so far by the
\* invocation
TargetRequests == IF pc = "targets" \/ dailyTargets.status = "ok" THEN 1 ELSE 0
TopicRequests == calls.ai - TargetRequests

\* a generation has started and has not yet been taken by its caller
Started == op.kind \in {"day", "week"}
Ended == pc = "done" /\ result.status \in {"ok", "error"}

StoredOnlyOnSuccess ==
    DayInvoked =>
        /\ schedules' # schedules =>
              pc = "create" /\ pc' = "done" /\ result'.status = "ok"
        /\ result'.status = "error" => schedules' = schedules

\* C30: a generateDaySchedule invocation that rejects has stored no schedule:
\* the stored schedules change only in the step that resolves the invocation,
\* and the structure check on the created record never fails.
C30_RejectedStoresNothing ==
    /\ [][StoredOnlyOnSuccess]_vars
    /\ [](DayInvoked /\ pc = "done" /\ calls.create = 1 /\ result.status = "error"
            => result = ScheduleError(<<"create rejected">>))

\* C30 witness: a composed day of two sessions was handed to create, the store
\* rejected it, and the invocation failed with nothing stored
C30_Witness ==
    /\ DayInvoked /\ pc = "done"
    /\ Len(sessions) = 2
    /\ data.type = "DAILY"
    /\ result = ScheduleError(<<"create rejected">>)
    /\ Len(schedules) = 0

\* the plan has been stored and has been deleted since (ids are never reused)
Deleted(id) == id \in 1..(nextPlanId - 1) /\ id \notin DOMAIN plans

\* `Study plan with id <id> not found`
NotFoundMessage(id) == <<"Study plan with id ", String(id), " not found">>

\* the step in which the second store call of deletePlanById resolves
DeleteSucceeds(t) ==
    /\ tasks[t].kind = "deletePlanById" /\ tasks[t].pc = "delete"
    /\ tasks'[t].result.status = "ok"

\* what deletePlanById and getPlanById do and leave: after a successful delete
\* nothing of the plan is stored; a read of a deleted plan and a second delete
\* reject with the not-found message, the delete leaving the store as it is
DeleteIsFinal ==
    \A t \in TaskIds :
        LET id == tasks[t].id
        IN /\ DeleteSucceeds(t) =>
                 /\ id \notin DOMAIN plans'
                 /\ SessionsOf(studySessions', id) = <<>>
           /\ (tasks[t].kind = "getPlanById" /\ tasks[t].pc = "find" /\ Deleted(id)) =>
                 /\ tasks'[t].pc = "done"
                 /\ tasks'[t].result.status = "error"
                 /\ tasks'[t].result.msg = NotFoundMessage(id)
           /\ (tasks[t].kind = "deletePlanById" /\ tasks[t].pc = "deleteMany" /\ Deleted(id)) =>
                 UNCHANGED <<plans, studySessions, schedules>>
           /\ (tasks[t].kind = "deletePlanById" /\ tasks[t].pc = "delete" /\ Deleted(id)) =>
                 /\ tasks'[t].pc = "done"
                 /\ tasks'[t].result.status = "error"
                 /\ tasks'[t].result.msg = NotFoundMessage(id)
                 /\ UNCHANGED <<plans, studySessions, schedules>>

\* C24: after deletePlanById(id) succeeded the plan and all of its study
\* sessions are gone from the store and stay gone; a later getPlanById(id)
\* rejects with 'Study plan with id <id> not found', and so does a second
\* deletePlanById(id), which leaves the store unchanged.
C24_DeletedStaysDeleted ==
    /\ [][DeleteIsFinal]_vars
    /\ [](\A id \in PlanIds : Deleted(id) => SessionsOf(studySessions, id) = <<>>)

\* C24 witness: a second deletePlanById(1) has been rejected as not found while
\* another plan and its sessions are still stored
C24_Witness ==
    /\ tasks[Caller].kind = "deletePlanById" /\ tasks[Caller].pc = "done"
    /\ tasks[Caller].id = 1 /\ Deleted(1)
    /\ tasks[Caller].result.msg = NotFoundMessage(1)
    /\ 2 \in DOMAIN plans
    /\ Len(SessionsOf(studySessions, 2)) = 2

\* the step in which the store call of updatePlanById settles
UpdateSettles(t) ==
    tasks[t].kind = "updatePlanById" /\ tasks[t].pc = "update" /\ tasks'[t].pc = "done"

\* the days of the study sessions of a plan, in the order stored
DaysOf(rows, id) == [k \in 1..Len(SessionsOf(rows, id)) |-> SessionsOf(rows, id)[k].day]

\* the days of the study sessions an update lists
DaysListed(u) ==
    IF "studySessions" \in DOMAIN u
    THEN [k \in 1..Len(u.studySessions) |-> String(u.studySessions[k].day)]
    ELSE <<>>

\* what a settled updatePlanById has changed
UpdateFrame ==
    \A t \in TaskIds :
        LET id == tasks[t].id
            u == tasks[t].arg
        IN UpdateSettles(t) =>
              /\ DOMAIN plans' = DOMAIN plans
              /\ \A o \in DOMAIN plans \ {id} :
                    /\ plans'[o] = plans[o]
                    /\ SessionsOf(studySessions', o) = SessionsOf(studySessions, o)
              /\ tasks'[t].result.status = "ok" =>
                    /\ \A f \in UpdatedFields \cap DOMAIN u : plans'[id][f] = u[f]
                    /\ \A f \in PlanFields \ DOMAIN u : plans'[id][f] = plans[id][f]
                    /\ DaysOf(studySessions', id) = DaysListed(u)
              /\ tasks'[t].result.status = "error" =>
                    UNCHANGED <<plans, studySessions>>

\* C25: updatePlanById(id, u) sets the fields of the plan that u gives (of
\* exam, studyDuration, dailyHours, subjects, optionals, studyStyle and
\* numberOfAttempts), leaves the fields u omits as they were, and replaces the
\* study sessions of the plan by those u.studySessions lists, by none when u
\* lists none; no other plan and no session of another plan is changed.
C25_UpdateFrame == [][UpdateFrame]_vars

\* C25 witness: an update of dailyHours with one study session has replaced the
\* two sessions of plan 1, while plan 2 and its two sessions are as created
C25_Witness ==
    /\ tasks[Caller].kind = "updatePlanById" /\ tasks[Caller].pc = "done"
    /\ tasks[Caller].result.status = "ok"
    /\ tasks[Caller].id = 1 /\ tasks[Caller].arg = UpdateOf(1)
    /\ plans[1].dailyHours = MaxHours + 1 /\ plans[1].exam = "UPSC"
    /\ Len(SessionsOf(studySessions, 1)) = 1
    /\ 2 \in DOMAIN plans /\ plans[2].dailyHours = 2
    /\ Len(SessionsOf(studySessions, 2)) = 2

\* the step in which createPlan settles
CreatePlanSettles(t) ==
    tasks[t].kind = "createPlan" /\ tasks[t].pc # "done" /\ tasks'[t].pc = "done"

\* C29: createPlan is all or nothing. When it rejects, the store holds no plan
\* and no study session created by the call; when it resolves, the plan it
\* returns has one stored study session per session of the input.
C29_CreateAllOrNothing ==
    [][\A t \in TaskIds :
          CreatePlanSettles(t) =>
             /\ tasks'[t].result.status = "error" =>
                   /\ DOMAIN plans' = DOMAIN plans \ {tasks'[t].id}
                   /\ SessionsOf(studySessions', tasks'[t].id) = <<>>
             /\ tasks'[t].result.status = "ok" =>
                   Len(tasks'[t].result.value.studySessions)
                      = Len(Field(tasks[t].arg, "studySessions", <<>>))]_vars

\* the callers whose updatePlanById of plan `id` has resolved, and whether one
\* is still pending
Writers(id) ==
    {t \in TaskIds : /\ tasks[t].kind = "updatePlanById" /\ tasks[t].id = id
                     /\ tasks[t].pc = "done" /\ tasks[t].result.status = "ok"}
UpdatePending(id) == \E t \in TaskIds : tasks[t].pc = "update" /\ tasks[t].id = id

\* the plan is as the update of caller t left it: the fields t gave and the
\* study sessions t listed; a field t omitted is as another caller's update or
\* createPlan set it
LeftBy(t, id) ==
    LET u == tasks[t].arg
    IN /\ \A f \in UpdatedFields \cap DOMAIN u : plans[id][f] = u[f]
       /\ DaysOf(studySessions, id) = DaysListed(u)
       /\ \A f \in PlanFields \ DOMAIN u :
             \/ plans[id][f] = PlanRow(BasePlan, 0)[f]
             \/ \E w \in Writers(id) : f \in DOMAIN tasks[w].arg /\ plans[id][f] = tasks[w].arg[f]

C23_RegenerationReflectsUpdate ==
    \A k, l \in 1..Len(schedules) :
        LET first == schedules[k]
            second == schedules[l]
            id == first.data.studyPlanId.v
        IN (/\ k < l
            /\ first.data.studyPlanId = second.data.studyPlanId
            /\ first.data.dayNumber = second.data.dayNumber
            /\ id \in DOMAIN plans
            /\ plans[id].subjects # studyPlan.subjects.items
            /\ first.createdAt < plans[id].updatedAt
            /\ plans[id].updatedAt < second.createdAt)
           => first.data.focus # second.data.focus

====
